---- MODULE Spec2Model ----
(***************************************************************************)
(* The graph editing and state-synchronisation engine of the workflow      *)
(* builder: the WorkflowCanvas component (session graph, reconciler        *)
(* effect, mutation handlers, connect-mode cursor) and the part of the     *)
(* owning App component that holds the workflow document.                  *)
(*                                                                         *)
(* React semantics the model relies on:                                    *)
(*  - a handler created by useCallback in a render reads the nodes and     *)
(*    edges of THAT render; a handler stored inside a node's data keeps    *)
(*    the nodes/edges of the render in which it was created (capNodes,     *)
(*    capEdges below);                                                     *)
(*  - setX(f) with a function f is applied to the latest queued state;     *)
(*  - one gesture is one synchronous step; the reconciler is a passive     *)
(*    effect that runs after the render the gesture caused, before the     *)
(*    next gesture (effectPending).                                        *)
(***************************************************************************)
EXTENDS Integers, Sequences, FiniteSets, TLC

VARIABLES
    nodes,           \* WorkflowCanvas: useNodesState, the session node sequence
    edges,           \* WorkflowCanvas: useEdgesState, the session edge sequence
    workflow,        \* App: useState({nodes: [], edges: []}), the owner document
    connectMode,     \* WorkflowCanvas prop (default false)
    connectFromRef,  \* WorkflowCanvas: useRef(null), the connect-mode cursor
    paneConnectMode, \* connectMode as captured by onPaneClick (deps: [onNodeSelect])
    selectedNode,    \* App: useState(null)
    activeTab,       \* App: useState('builder'); the canvas is mounted on 'builder'
    saved,           \* the backend's saved workflows (createWorkflow / getWorkflow)
    pendingLoad,     \* the saved workflow whose getWorkflow request is in flight, or 0
    currentWorkflowId, \* App: useState(null), the id of a saved workflow, or 0
    chat,            \* App: chatLoading, chatOutput and the chat request in flight
    effectPending,   \* the reconciler effect has to run (a dependency changed)
    now,             \* the last value read from Date.now()
    budget,          \* number of gestures left to explore
    ev               \* the last gesture: op, node id, documents notified, reconciler runs

vars == <<nodes, edges, workflow, connectMode, connectFromRef, paneConnectMode,
          selectedNode, activeTab, saved, pendingLoad,
                   currentWorkflowId, chat, effectPending, now, budget, ev>>

----------------------------------------------------------------------------
(* Bounds of the exploration *)

MaxGestures == 4
MaxLoadedGestures == 3
MaxTime == 2
MaxChatGestures == 4
MaxSaved == 3

(* Inputs *)
Kinds == {"user_query", "knowledge_base", "output"}
Positions == {100, 200}
DropPositions == {100}
Tabs == {"builder", "workflows"}
AppTabs == Tabs \cup {"chat", "documents"}
Responses == {"answer"}
Null == <<"null", 0>>

----------------------------------------------------------------------------
(* Sequence helpers *)

Ids(s) == [i \in 1..Len(s) |-> s[i].id]
Range(s) == {s[i] : i \in 1..Len(s)}

(* types: DEFAULT_COMPONENT_CONFIGS, of the component kinds the model drops *)
DefaultConfig(kind) ==
    CASE kind = "user_query" ->
           [placeholder |-> "Enter your question here...", max_length |-> 1000]
      [] kind = "knowledge_base" ->
           [chunk_size |-> 1000, chunk_overlap |-> 200,
            embedding_model |-> "gemini", collection_name |-> "default"]
      [] kind = "output" ->
           [show_timestamps |-> TRUE, enable_follow_up |-> TRUE, max_history |-> 50]

(* types: COMPONENT_METADATA[kind].label *)
Label(kind) ==
    CASE kind = "user_query" -> "User Query"
      [] kind = "knowledge_base" -> "Knowledge Base"
      [] kind = "output" -> "Output"

(* A config update that replaces the config instead of merging into it *)
MergeConfig_Replace(config, newConfig) == newConfig

(* { ...(node.data?.config || {}), ...newConfig } *)
MergeConfig(config, newConfig) ==
    [k \in (DOMAIN config) \cup (DOMAIN newConfig) |->
        IF k \in DOMAIN newConfig THEN newConfig[k] ELSE config[k]]

(* A sanitizer that builds data anew and loses the node's result *)
SanitizeNode_DropResult(n) ==
    [n EXCEPT !.handle = "none", !.capNodes = <<>>, !.capEdges = <<>>, !.result = <<>>]

(* sanitizeNodes: onDelete and onUpdateConfig set to undefined, the rest kept *)
SanitizeNode(n) == [n EXCEPT !.handle = "none", !.capNodes = <<>>, !.capEdges = <<>>]
sanitizeNodes(ns) == [i \in 1..Len(ns) |-> SanitizeNode(ns[i])]

(* A comparison of the node objects themselves instead of their ids *)
SameIds_ByObject(cur, incoming) ==
    /\ Len(cur) = Len(incoming)
    /\ \A i \in 1..Len(cur) : cur[i] = incoming[i]

(* the reconciler's comparison: same length and same id at every index *)
SameIds(cur, incoming) ==
    /\ Len(cur) = Len(incoming)
    /\ \A i \in 1..Len(cur) : cur[i].id = incoming[i].id

(* A rehydration that adopts the incoming nodes as they are, without handles *)
HydrateNode_NoHandles(n, eds) == n

(* A rehydration that builds data anew and loses the node's last result *)
HydrateNode_NoResult(n, eds) ==
    [n EXCEPT !.handle = "hydrated", !.capNodes = <<>>, !.capEdges = eds, !.result = <<>>]

(* A rehydration that gives every adopted node a new id, as onDrop does *)
HydrateNodes_FreshIds(ns, eds) ==
    [i \in 1..Len(ns) |->
        [ns[i] EXCEPT !.id = <<ns[i].kind, now>>, !.handle = "hydrated",
                      !.capNodes = <<>>, !.capEdges = eds]]

(* the reconciler's rehydration: every incoming field kept, both handles     *)
(* replaced by closures created in the effect, which read the effect's edges *)
HydrateNode(n, eds) == [n EXCEPT !.handle = "hydrated", !.capNodes = <<>>, !.capEdges = eds]
HydrateNodes(ns, eds) == [i \in 1..Len(ns) |-> HydrateNode(ns[i], eds)]

Doc(ns, es) == [nodes |-> ns, edges |-> es]

Touches(e, id) == e.source = id \/ e.target = id

(* The record of the last gesture: made holds the edge a connect gesture    *)
(* created, threw tells that the handler ended by an exception, dt holds the  *)
(* dataTransfer of a drop that created a node, to the target node of a drag   *)
(* between two handles. scen follows the scenario "drop a       *)
(* user_query node, drop an output node, connect them, delete the          *)
(* user_query node" from the initial empty graph: it counts the steps done  *)
(* while the gestures so far are exactly that scenario, and is -1 otherwise *)
ScenStep(scen, op, id) ==
    CASE scen = 0 /\ op = "drop" /\ id[1] = "user_query" -> 1
      [] scen = 1 /\ op = "drop" /\ id[1] = "output" -> 2
      [] scen = 2 /\ op = "onConnect" /\ id[1] = "user_query" -> 3
      [] scen = 3 /\ op = "onDelete" /\ id[1] = "user_query" -> 4
      [] OTHER -> -1

EventOf(scen, op, id, notes) ==
    [op |-> op, id |-> id, idx |-> 0, ids |-> {}, handle |-> "none", notes |-> notes,
     replaced |-> 0, skipped |-> 0, scen |-> scen, chain |-> <<>>,
     made |-> <<>>, threw |-> FALSE, dt |-> <<>>, to |-> Null]

Event(op, id, notes) == EventOf(ScenStep(ev.scen, op, id), op, id, notes)

(* The update-config calls made in a row on the same node (the last two): *)
(* the partial config given and the node's config before the call        *)
Chain(i, id, newConfig, config) ==
    (IF ev.op = "onUpdateConfig" /\ ev.idx = i /\ ev.id = id
     THEN <<ev.chain[Len(ev.chain)]>> ELSE <<>>)
    \o <<[arg |-> newConfig, pre |-> config]>>

----------------------------------------------------------------------------
(* The workflow prop of a canvas whose owner passes none (undefined) *)
NoDocument == [undefined |-> TRUE]

(* A test that takes every value of the prop for a document *)
NoWorkflow_Never(w) == FALSE

(* !workflow *)
NoWorkflow(w) == w = NoDocument

(* Array.isArray(workflow.nodes) ? workflow.nodes : [], and the same for edges *)
IncomingNodes(w) == IF "nodes" \in DOMAIN w THEN w.nodes ELSE <<>>
IncomingEdges(w) == IF "edges" \in DOMAIN w THEN w.edges ELSE <<>>

(* The owner: handleWorkflowChange is setWorkflow(newWorkflow); several calls *)
(* in one gesture are batched, the last one is the document after the gesture. *)
(* An owner that passes no workflow prop has no document to update.            *)
Notify(notes) ==
    workflow' = IF Len(notes) = 0 \/ workflow = NoDocument
                THEN workflow ELSE notes[Len(notes)]

(* The chat panel before any run: chatLoading false, chatOutput '', and *)
(* no chat request in flight                                            *)
NoChat == [loading |-> FALSE, output |-> "", workflowId |-> 0]

Mounted == activeTab = "builder"
Quiet == Mounted /\ ~effectPending /\ budget > 0

(* A workflow saved by an earlier session: a query wired to an output *)
SavedNode(kind) ==
    [id |-> <<kind, 0>>, kind |-> kind, pos |-> 100, label |-> Label(kind),
     config |-> DefaultConfig(kind),
     result |-> IF kind = "output" THEN <<"">> ELSE <<>>,
     handle |-> "none", capNodes |-> <<>>, capEdges |-> <<>>]

SavedWorkflow ==
    Doc(<<SavedNode("user_query"), SavedNode("output")>>,
        <<[id |-> <<"reactflow__edge", <<"user_query", 0>>, <<"output", 0>>, 0>>,
           source |-> <<"user_query", 0>>, target |-> <<"output", 0>>]>>)

Init ==
    /\ nodes = <<>>
    /\ edges = <<>>
    /\ workflow = Doc(<<>>, <<>>)
    /\ connectMode = FALSE
    /\ connectFromRef = Null
    /\ paneConnectMode = FALSE
    /\ selectedNode = Null
    /\ activeTab = "builder"
    /\ saved = <<SavedWorkflow>>
    /\ pendingLoad = 0
    /\ currentWorkflowId = 0
    /\ chat = NoChat
    /\ effectPending = TRUE
    /\ now = 1
    /\ budget = MaxGestures
    /\ ev = EventOf(0, "mount", Null, <<>>)

(* A reconciler that also lifts the session graph to the owner *)
Reconcile_WritesBack ==
    /\ Mounted
    /\ effectPending
    /\ IF NoWorkflow(workflow)
       THEN /\ effectPending' = FALSE
            /\ UNCHANGED <<nodes, edges, ev, workflow>>
       ELSE IF /\ SameIds(nodes, IncomingNodes(workflow))
               /\ SameIds(edges, IncomingEdges(workflow))
       THEN /\ effectPending' = FALSE
            /\ ev' = [ev EXCEPT !.skipped = @ + 1]
            /\ workflow' = Doc(sanitizeNodes(nodes), edges)
            /\ UNCHANGED <<nodes, edges>>
       ELSE /\ nodes' = HydrateNodes(IncomingNodes(workflow), edges)
            /\ edges' = IncomingEdges(workflow)
            /\ effectPending' = TRUE
            /\ ev' = [ev EXCEPT !.replaced = @ + 1]
            /\ workflow' = Doc(sanitizeNodes(nodes'), edges')
    /\ UNCHANGED <<connectMode, connectFromRef, paneConnectMode,
                   selectedNode, activeTab, saved, pendingLoad,
                   currentWorkflowId, chat, now, budget>>

(* The reconciler effect *)
Reconcile ==
    /\ Mounted
    /\ effectPending
    /\ IF NoWorkflow(workflow)
       THEN /\ effectPending' = FALSE
            /\ UNCHANGED <<nodes, edges, ev>>
       ELSE IF /\ SameIds(nodes, IncomingNodes(workflow))
               /\ SameIds(edges, IncomingEdges(workflow))
       THEN /\ effectPending' = FALSE
            /\ ev' = [ev EXCEPT !.skipped = @ + 1]
            /\ UNCHANGED <<nodes, edges>>
       ELSE /\ nodes' = HydrateNodes(IncomingNodes(workflow), edges)
            /\ edges' = IncomingEdges(workflow)
            /\ effectPending' = TRUE
            /\ ev' = [ev EXCEPT !.replaced = @ + 1]
    /\ UNCHANGED <<workflow, connectMode, connectFromRef, paneConnectMode,
                   selectedNode, activeTab, saved, pendingLoad,
                   currentWorkflowId, chat, now, budget>>

frame_owner ==
    UNCHANGED <<connectMode, paneConnectMode, selectedNode, activeTab, saved, pendingLoad,
                   currentWorkflowId, chat>>

(* Date.now(): the clock does not go back, and may not have advanced since *)
(* it was last read                                                        *)
Clock == {t \in {now, now + 1} : t <= MaxTime}

(* The dataTransfer of a drop. getData gives "" for a format that was not  *)
(* set. The text of componentData is <<"payload", kind>> for the JSON the   *)
(* palette writes for a component, <<"null", "">> for the JSON text null,   *)
(* <<"empty", "">> for "" and <<"garbage", "">> for a text that is no JSON, *)
(* <<"bare", kind>> for the JSON of an object with a label only.            *)
PaletteTransfer(kind) ==
    [type |-> "custom", componentType |-> kind, componentData |-> <<"payload", kind>>]

MalformedTransfers ==
    { [type |-> "", componentType |-> "", componentData |-> <<"empty", "">>],
      [type |-> "custom", componentType |-> "output", componentData |-> <<"garbage", "">>],
      [type |-> "custom", componentType |-> "output", componentData |-> <<"null", "">>],
      [type |-> "", componentType |-> "output", componentData |-> <<"null", "">>],
      [type |-> "", componentType |-> "output", componentData |-> <<"payload", "output">>] }

(* A well-formed payload that has no defaultConfig *)
BareTransfer ==
    [type |-> "custom", componentType |-> "knowledge_base",
     componentData |-> <<"bare", "knowledge_base">>]

DataTransfers ==
    {PaletteTransfer(kind) : kind \in Kinds} \cup {BareTransfer} \cup MalformedTransfers

EmptyConfig == [k \in {} |-> 0]

(* JSON.parse: throws on "" and on a text that is no JSON, gives null for  *)
(* null (value <<>>) and the object for the palette's text                 *)
JSONParse(text) ==
    CASE text[1] = "payload" ->
           [threw |-> FALSE,
            value |-> <<[label |-> Label(text[2]), defaultConfig |-> DefaultConfig(text[2])]>>]
      [] text[1] = "bare" -> [threw |-> FALSE, value |-> <<[label |-> Label(text[2])]>>]
      [] text[1] = "null" -> [threw |-> FALSE, value |-> <<>>]
      [] OTHER -> [threw |-> TRUE, value |-> <<>>]

(* A new node that has the empty formatted response whatever its kind *)
NewNode_AlwaysResult(kind, componentData, pos, t, ns, es) ==
    [id |-> <<kind, t>>, kind |-> kind, pos |-> pos, label |-> componentData.label,
     config |-> IF "defaultConfig" \in DOMAIN componentData
                THEN componentData.defaultConfig ELSE EmptyConfig,
     result |-> <<"">>,
     handle |-> "drop", capNodes |-> ns, capEdges |-> es]

(* onDrop: the node built from componentType and componentData *)
NewNode(kind, componentData, pos, t, ns, es) ==
    [id |-> <<kind, t>>, kind |-> kind, pos |-> pos, label |-> componentData.label,
     config |-> IF "defaultConfig" \in DOMAIN componentData
                THEN componentData.defaultConfig ELSE EmptyConfig,
     result |-> IF kind = "output" THEN <<"">> ELSE <<>>,
     handle |-> "drop", capNodes |-> ns, capEdges |-> es]

(* A notification of the nodes as they were before the drop *)
DropNote_Stale(newNode, ns, es) == Doc(sanitizeNodes(ns), es)

DropNote(newNode, ns, es) == Doc(sanitizeNodes(Append(ns, newNode)), es)

(* The handler returns or throws before it has changed anything *)
DropAborted(threw) ==
    /\ ev' = [Event("dropAborted", Null, <<>>) EXCEPT !.threw = threw]
    /\ UNCHANGED <<nodes, workflow, effectPending, now>>

(* onDrop: componentData is parsed first, then the type is tested, then the *)
(* node is built from the parsed object's fields                            *)
onDrop(dt, pos, t) ==
    /\ Quiet
    /\ t \in Clock
    /\ LET parsed == JSONParse(dt.componentData) IN
       IF parsed.threw THEN DropAborted(TRUE)
       ELSE IF dt.type = "" THEN DropAborted(FALSE)
       ELSE IF parsed.value = <<>> THEN DropAborted(TRUE)
       ELSE LET newNode == NewNode(dt.componentType, parsed.value[1], pos, t, nodes, edges)
                note == DropNote(newNode, nodes, edges)
            IN /\ now' = t
               /\ nodes' = Append(nodes, newNode)
               /\ Notify(<<note>>)
               /\ ev' = [Event("drop", newNode.id, <<note>>) EXCEPT !.dt = <<dt>>]
               /\ effectPending' = TRUE
    /\ budget' = budget - 1
    /\ UNCHANGED <<edges, connectFromRef>>
    /\ frame_owner

(* The per-node delete handle, data.onDelete(id), called by CustomNode with   *)
(* the node's own id. The handle attached at drop time reads the nodes and   *)
(* edges of the render of the drop; the one attached by the reconciler reads  *)
(* the edges of the render of the effect.                                     *)
DeleteEdgesOf(eds, id) == SelectSeq(eds, LAMBDA e : ~Touches(e, id))
DeleteNodeOf(nds, id) == SelectSeq(nds, LAMBDA n : n.id # id)

DropOnDeleteNote(h, id) == Doc(DeleteNodeOf(h.capNodes, id), DeleteEdgesOf(h.capEdges, id))
HydratedOnDeleteNote(h, id, nds) == Doc(sanitizeNodes(DeleteNodeOf(nds, id)), h.capEdges)

(* data.onDelete(id) of the node at index i, for any id *)
CallOnDelete(i, id) ==
    /\ Quiet
    /\ i \in 1..Len(nodes)
    /\ LET h == nodes[i]
           note == IF h.handle = "drop" THEN DropOnDeleteNote(h, id)
                   ELSE HydratedOnDeleteNote(h, id, nodes)
       IN /\ edges' = DeleteEdgesOf(edges, id)
          /\ nodes' = DeleteNodeOf(nodes, id)
          /\ Notify(<<note>>)
          /\ ev' = [Event("onDelete", id, <<note>>) EXCEPT !.handle = h.handle, !.idx = i]
    /\ effectPending' = TRUE
    /\ budget' = budget - 1
    /\ UNCHANGED <<connectFromRef, now>>
    /\ frame_owner

(* The Delete button of CustomNode: data.onDelete?.(id) with the node's id *)
onDelete(i) == i \in 1..Len(nodes) /\ CallOnDelete(i, nodes[i].id)

(* The per-node update-config handle, data.onUpdateConfig(id, newConfig) *)
PartialConfigs == { [a |-> 1], [b |-> 2], [a |-> 3] }

(* An update that merges the partial config into every node of the graph *)
UpdateConfigOf_All(nds, id, newConfig) ==
    [i \in 1..Len(nds) |->
        [nds[i] EXCEPT !.config = MergeConfig(nds[i].config, newConfig)]]

UpdateConfigOf(nds, id, newConfig) ==
    [i \in 1..Len(nds) |->
        IF nds[i].id = id
        THEN [nds[i] EXCEPT !.config = MergeConfig(nds[i].config, newConfig)]
        ELSE nds[i]]

OnUpdateConfigNote(h, updated) == Doc(sanitizeNodes(updated), h.capEdges)

(* data.onUpdateConfig(id, newConfig) of the node at index i, for any id *)
CallOnUpdateConfig(i, id, newConfig) ==
    /\ Quiet
    /\ i \in 1..Len(nodes)
    /\ LET h == nodes[i]
           updated == UpdateConfigOf(nodes, id, newConfig)
           note == OnUpdateConfigNote(h, updated)
       IN /\ nodes' = updated
          /\ Notify(<<note>>)
          /\ ev' = [Event("onUpdateConfig", id, <<note>>) EXCEPT
                        !.handle = h.handle, !.idx = i,
                        !.chain = Chain(i, id, newConfig, h.config)]
    /\ effectPending' = TRUE
    /\ budget' = budget - 1
    /\ UNCHANGED <<edges, connectFromRef, now>>
    /\ frame_owner

(* CustomNode: data.onUpdateConfig?.(id, { ... }) with the node's id *)
onUpdateConfig(i, newConfig) ==
    i \in 1..Len(nodes) /\ CallOnUpdateConfig(i, nodes[i].id, newConfig)

(* The handles called with the id of a node that is not in the session *)
AbsentIds == { <<"output", -1>> }

onDeleteAbsent(i, id) ==
    id \in AbsentIds /\ id \notin Range(Ids(nodes)) /\ CallOnDelete(i, id)

onUpdateConfigAbsent(i, id, newConfig) ==
    id \in AbsentIds /\ id \notin Range(Ids(nodes)) /\ CallOnUpdateConfig(i, id, newConfig)

(* An addEdge that appends whatever the edges already there *)
addEdge_NoDedupe(edge, eds) == Append(eds, edge)

(* reactflow addEdge: the edge is appended unless an edge with the same     *)
(* source and target (and handles, which CustomNode leaves unnamed) exists   *)
addEdge(edge, eds) ==
    IF \E i \in 1..Len(eds) : eds[i].source = edge.source /\ eds[i].target = edge.target
    THEN eds
    ELSE Append(eds, edge)

(* onConnect: a completed drag between two handles. addEdge gives an edge   *)
(* without id the id reactflow__edge-<source>-<target>.                      *)
DragEdge(s, t) == [id |-> <<"reactflow__edge", s, t, 0>>, source |-> s, target |-> t]

(* CustomNode: user_query has no input handle, output has no output handle; *)
(* a drag joins two different nodes and starts at a handle                   *)
CanDrag(ns, nt) == ns.id # nt.id /\ ~(ns.kind = "output" /\ nt.kind = "user_query")

onConnect(i, j) ==
    /\ Quiet
    /\ i \in 1..Len(nodes) /\ j \in 1..Len(nodes)
    /\ CanDrag(nodes[i], nodes[j])
    /\ LET updated == addEdge(DragEdge(nodes[i].id, nodes[j].id), edges)
           note == Doc(sanitizeNodes(nodes), updated)
       IN /\ edges' = updated
          /\ Notify(<<note>>)
          /\ ev' = [Event("onConnect", nodes[i].id, <<note>>) EXCEPT
                        !.to = nodes[j].id,
                        !.made = IF updated = edges THEN <<>>
                                 ELSE <<DragEdge(nodes[i].id, nodes[j].id)>>]
    /\ effectPending' = TRUE
    /\ budget' = budget - 1
    /\ UNCHANGED <<nodes, connectFromRef, now>>
    /\ frame_owner

(* A click edge that runs from the second node clicked to the first *)
ClickEdge_Reversed(s, t, at) == [id |-> <<"connect", s, t, at>>, source |-> t, target |-> s]

(* onNodeClick: the two-click connect gesture when connectMode is set, node *)
(* selection otherwise. newEdge has the id <source>-<target>-<Date.now()>.  *)
ClickEdge(s, t, at) == [id |-> <<"connect", s, t, at>>, source |-> s, target |-> t]

ClickNote(nds, eds, newEdge) == Doc(nds, Append(eds, newEdge))

(* A click handler that takes the connect branch whatever the mode *)
InConnectMode_Always(mode) == TRUE

(* if (connectMode) *)
InConnectMode(mode) == mode

(* A second click that is accepted on any node, the armed one included *)
DifferentNode_Any(cursor, id) == TRUE

(* connectFromRef.current !== node.id *)
DifferentNode(cursor, id) == cursor # id

onNodeClick(i, t) ==
    /\ Quiet
    /\ i \in 1..Len(nodes)
    /\ t \in Clock
    /\ budget' = budget - 1
    /\ LET id == nodes[i].id IN
       IF InConnectMode(connectMode)
       THEN IF connectFromRef = Null
            THEN /\ connectFromRef' = id
                 /\ ev' = Event("arm", id, <<>>)
                 /\ UNCHANGED <<nodes, edges, workflow, selectedNode, effectPending, now>>
            ELSE IF DifferentNode(connectFromRef, id)
            THEN LET newEdge == ClickEdge(connectFromRef, id, t)
                     note == ClickNote(nodes, edges, newEdge)
                 IN /\ edges' = addEdge(newEdge, edges)
                    /\ Notify(<<note>>)
                    /\ connectFromRef' = Null
                    /\ now' = t
                    /\ effectPending' = TRUE
                    /\ ev' = [Event("connectClick", id, <<note>>) EXCEPT !.made = <<newEdge>>]
                    /\ UNCHANGED <<nodes, selectedNode>>
            ELSE /\ ev' = Event("sameClick", id, <<>>)
                 /\ UNCHANGED <<nodes, edges, workflow, connectFromRef, selectedNode,
                                effectPending, now>>
       ELSE /\ selectedNode' = id
            /\ ev' = Event("select", id, <<>>)
            /\ UNCHANGED <<nodes, edges, workflow, connectFromRef, effectPending, now>>
    /\ UNCHANGED <<connectMode, paneConnectMode, activeTab, saved, pendingLoad,
                   currentWorkflowId, chat>>

(* onPaneClick: its useCallback lists only onNodeSelect, so it reads the *)
(* connectMode of the render in which the canvas was mounted             *)
onPaneClick ==
    /\ Quiet
    /\ budget' = budget - 1
    /\ IF paneConnectMode
       THEN connectFromRef' = Null /\ UNCHANGED selectedNode
       ELSE selectedNode' = Null /\ UNCHANGED connectFromRef
    /\ ev' = Event("onPaneClick", Null, <<>>)
    /\ UNCHANGED <<nodes, edges, workflow, connectMode, paneConnectMode, activeTab,
                   saved, pendingLoad,
                   currentWorkflowId, chat, effectPending, now>>

(* The owner switches the connectMode prop *)
SetConnectMode ==
    /\ Quiet
    /\ budget' = budget - 1
    /\ connectMode' = ~connectMode
    /\ ev' = Event("connectMode", Null, <<>>)
    /\ UNCHANGED <<nodes, edges, workflow, connectFromRef, paneConnectMode, selectedNode,
                   activeTab, saved, pendingLoad,
                   currentWorkflowId, chat, effectPending, now>>

(* A removal that drops every edge *)
RemoveEdgeIds_All(eds, ids) == SelectSeq(eds, LAMBDA e : FALSE)

(* onEdgeClick *)
RemoveEdgeIds(eds, ids) == SelectSeq(eds, LAMBDA e : e.id \notin ids)

onEdgeClick(k) ==
    /\ Quiet
    /\ k \in 1..Len(edges)
    /\ LET updated == RemoveEdgeIds(edges, {edges[k].id})
           note == Doc(sanitizeNodes(nodes), updated)
       IN /\ edges' = updated
          /\ Notify(<<note>>)
          /\ ev' = Event("onEdgeClick", edges[k].id, <<note>>)
    /\ effectPending' = TRUE
    /\ budget' = budget - 1
    /\ UNCHANGED <<nodes, connectFromRef, now>>
    /\ frame_owner

(* Deleting the selection with the delete key. reactflow first reports the *)
(* edges it removes (the selected ones and those connected to a selected   *)
(* node) to onEdgesDelete and removes them through onEdgesChange, then      *)
(* reports the nodes to onNodesDelete and removes them through onNodesChange *)
RemoveNodeIds(nds, ids) == SelectSeq(nds, LAMBDA n : n.id \notin ids)
EdgesOfNodes(eds, ids) == SelectSeq(eds, LAMBDA e : e.source \in ids \/ e.target \in ids)

(* onEdgesDelete(deleted), called with the session of the current render *)
OnEdgesDeleteNote(nds, eds, deleted) ==
    Doc(sanitizeNodes(nds), RemoveEdgeIds(eds, Range(Ids(deleted))))

(* onNodesDelete(deleted), called with the session of the current render *)
OnNodesDeleteEdges(eds, ids) == SelectSeq(eds, LAMBDA e : e.source \notin ids /\ e.target \notin ids)
OnNodesDeleteNote(nds, eds, ids) == Doc(sanitizeNodes(RemoveNodeIds(nds, ids)), eds)

onNodesDelete(D) ==
    /\ Quiet
    /\ D # {}
    /\ LET ids == {nodes[i].id : i \in D}
           connected == EdgesOfNodes(edges, ids)
           notes == (IF Len(connected) > 0
                     THEN <<OnEdgesDeleteNote(nodes, edges, connected)>> ELSE <<>>)
                    \o <<OnNodesDeleteNote(nodes, edges, ids)>>
       IN /\ edges' = OnNodesDeleteEdges(RemoveEdgeIds(edges, Range(Ids(connected))), ids)
          /\ nodes' = RemoveNodeIds(nodes, ids)
          /\ Notify(notes)
          /\ ev' = [Event("onNodesDelete", Null, notes) EXCEPT !.ids = ids]
    /\ effectPending' = TRUE
    /\ budget' = budget - 1
    /\ UNCHANGED <<connectFromRef, now>>
    /\ frame_owner

onEdgesDelete(E) ==
    /\ Quiet
    /\ E # {}
    /\ LET deleted == SelectSeq(edges, LAMBDA e : e.id \in {edges[k].id : k \in E})
           note == OnEdgesDeleteNote(nodes, edges, deleted)
       IN /\ edges' = RemoveEdgeIds(edges, Range(Ids(deleted)))
          /\ Notify(<<note>>)
          /\ ev' = Event("onEdgesDelete", Null, <<note>>)
    /\ effectPending' = TRUE
    /\ budget' = budget - 1
    /\ UNCHANGED <<nodes, connectFromRef, now>>
    /\ frame_owner

(* Dragging a node: onNodesChange (useNodesState) applies the position *)
(* change to the session; no handler of the canvas is involved        *)
onNodesChangePosition(i, pos) ==
    /\ Quiet
    /\ i \in 1..Len(nodes)
    /\ pos # nodes[i].pos
    /\ nodes' = [nodes EXCEPT ![i].pos = pos]
    /\ ev' = Event("drag", nodes[i].id, <<>>)
    /\ effectPending' = TRUE
    /\ budget' = budget - 1
    /\ UNCHANGED <<edges, workflow, connectFromRef, now>>
    /\ frame_owner

(* The tab bar of the App: the canvas is rendered on the builder tab only, *)
(* so its state (session graph, cursor, callbacks) is created anew each    *)
(* time that tab is shown                                                   *)
MountCanvas ==
    /\ nodes' = <<>>
    /\ edges' = <<>>
    /\ connectFromRef' = Null
    /\ paneConnectMode' = connectMode
    /\ effectPending' = TRUE

UnmountCanvas ==
    /\ nodes' = <<>>
    /\ edges' = <<>>
    /\ connectFromRef' = Null
    /\ effectPending' = FALSE
    /\ UNCHANGED paneConnectMode

setActiveTab(tab) ==
    /\ Mounted => ~effectPending
    /\ budget > 0
    /\ tab \in AppTabs
    /\ tab # activeTab
    /\ activeTab' = tab
    /\ IF tab = "builder" THEN MountCanvas ELSE UnmountCanvas
    /\ ev' = Event("tab", Null, <<>>)
    /\ budget' = budget - 1
    /\ UNCHANGED <<workflow, connectMode, selectedNode, saved, pendingLoad,
                   currentWorkflowId, chat, now>>

(* The Load button of the workflows tab: getWorkflow(w.id) is awaited ... *)
LoadClick(k) ==
    /\ activeTab = "workflows"
    /\ budget > 0
    /\ pendingLoad = 0
    /\ k \in 1..Len(saved)
    /\ pendingLoad' = k
    /\ ev' = Event("loadClick", Null, <<>>)
    /\ budget' = budget - 1
    /\ UNCHANGED <<nodes, edges, workflow, connectMode, connectFromRef, paneConnectMode,
                   selectedNode, activeTab, saved, effectPending, now,
                   currentWorkflowId, chat>>

(* ... and when it answers, setActiveTab('builder') and setWorkflow(...) *)
LoadResponse ==
    /\ pendingLoad # 0
    /\ Mounted => ~effectPending
    /\ workflow' = Doc(saved[pendingLoad].nodes, saved[pendingLoad].edges)
    /\ activeTab' = "builder"
    /\ pendingLoad' = 0
    /\ IF Mounted
       THEN /\ effectPending' = TRUE
            /\ UNCHANGED <<nodes, edges, connectFromRef, paneConnectMode>>
       ELSE MountCanvas
    /\ ev' = Event("load", Null, <<>>)
    /\ UNCHANGED <<connectMode, selectedNode, saved, now, budget,
                   currentWorkflowId, chat>>

Next ==
    \/ Reconcile
    \/ \E dt \in DataTransfers, t \in Clock : \E pos \in DropPositions : onDrop(dt, pos, t)
    \/ \E i \in 1..Len(nodes) : onDelete(i)
    \/ \E i \in 1..Len(nodes), c \in PartialConfigs : onUpdateConfig(i, c)
    \/ \E i, j \in 1..Len(nodes) : onConnect(i, j)
    \/ \E i \in 1..Len(nodes), t \in Clock : onNodeClick(i, t)
    \/ onPaneClick
    \/ SetConnectMode
    \/ \E k \in 1..Len(edges) : onEdgeClick(k)
    \/ \E D \in SUBSET (1..Len(nodes)) : onNodesDelete(D)
    \/ \E E \in SUBSET (1..Len(edges)) : onEdgesDelete(E)
    \/ \E i \in 1..Len(nodes), pos \in Positions : onNodesChangePosition(i, pos)
    \/ \E tab \in Tabs : setActiveTab(tab)
    \/ \E k \in 1..Len(saved) : LoadClick(k)
    \/ LoadResponse

Spec == Init /\ [][Next]_vars

(* The canvas as the Load button leaves it, shown by an owner that passes *)
(* connectMode: mounted on the builder tab with the saved workflow as its  *)
(* workflow prop, the reconciler effect still to run                       *)
InitLoaded ==
    /\ nodes = <<>>
    /\ edges = <<>>
    /\ workflow = Doc(SavedWorkflow.nodes, SavedWorkflow.edges)
    /\ connectMode = TRUE
    /\ connectFromRef = Null
    /\ paneConnectMode = TRUE
    /\ selectedNode = Null
    /\ activeTab = "builder"
    /\ saved = <<SavedWorkflow>>
    /\ pendingLoad = 0
    /\ currentWorkflowId = 0
    /\ chat = NoChat
    /\ effectPending = TRUE
    /\ now = 1
    /\ budget = MaxLoadedGestures
    /\ ev = EventOf(-1, "load", Null, <<>>)

SpecLoaded == InitLoaded /\ [][Next]_vars

(* The canvas with its handles also called with ids of nodes it does not hold *)
NextDirect ==
    \/ Next
    \/ \E i \in 1..Len(nodes), id \in AbsentIds : onDeleteAbsent(i, id)
    \/ \E i \in 1..Len(nodes), id \in AbsentIds : onUpdateConfigAbsent(i, id, [a |-> 1])

SpecDirect == Init /\ [][NextDirect]_vars

(* The canvas mounted by an owner that passes no workflow prop *)
InitNoDocument ==
    /\ nodes = <<>>
    /\ edges = <<>>
    /\ workflow = NoDocument
    /\ connectMode = FALSE
    /\ connectFromRef = Null
    /\ paneConnectMode = FALSE
    /\ selectedNode = Null
    /\ activeTab = "builder"
    /\ saved = <<SavedWorkflow>>
    /\ pendingLoad = 0
    /\ currentWorkflowId = 0
    /\ chat = NoChat
    /\ effectPending = TRUE
    /\ now = 1
    /\ budget = MaxGestures
    /\ ev = EventOf(0, "mount", Null, <<>>)

SpecNoDocument == InitNoDocument /\ [][Next]_vars

----------------------------------------------------------------------------
(* The App around the canvas: Save, the chat tab and the backend *)

(* The JSON body of a request: function-valued and undefined properties of *)
(* node data (the behavior handles) are not serialized                     *)
Stringify(ns) ==
    [i \in 1..Len(ns) |->
        [ns[i] EXCEPT !.handle = "none", !.capNodes = <<>>, !.capEdges = <<>>]]

(* createWorkflow: the backend stores the posted nodes and edges under a new id *)
createWorkflow(w) == Append(saved, Doc(Stringify(w.nodes), w.edges))

(* The client-side validation of the Run button *)
HasKind(w, kind) == \E i \in 1..Len(w.nodes) : w.nodes[i].kind = kind
Runnable(w) ==
    /\ Len(w.nodes) > 0
    /\ Len(w.edges) > 0
    /\ HasKind(w, "user_query")
    /\ HasKind(w, "output")

(* setWorkflow(prev => ...) of a successful run *)
SetResponse(w, text) ==
    [w EXCEPT !.nodes =
        [i \in 1..Len(w.nodes) |->
            IF w.nodes[i].kind = "output"
            THEN [w.nodes[i] EXCEPT !.result = <<text>>]
            ELSE w.nodes[i]]]

(* The Save button of the header; ok tells whether the backend accepted *)
handleSaveWorkflow(ok) ==
    /\ budget > 0
    /\ Mounted => ~effectPending
    /\ Len(workflow.nodes) > 0
    /\ Len(saved) < MaxSaved
    /\ IF ok
       THEN /\ saved' = createWorkflow(workflow)
            /\ currentWorkflowId' = Len(saved')
       ELSE UNCHANGED <<saved, currentWorkflowId>>
    /\ ev' = Event("save", Null, <<>>)
    /\ budget' = budget - 1
    /\ UNCHANGED <<nodes, edges, workflow, connectMode, connectFromRef, paneConnectMode,
                   selectedNode, activeTab, pendingLoad, chat, effectPending, now>>

(* The Run button of the chat tab, up to the chat request: validation, a     *)
(* temporary workflow created when no id is known, then chatWithWorkflow     *)
ChatClick(ok) ==
    /\ activeTab = "chat"
    /\ budget > 0
    /\ ~chat.loading
    /\ currentWorkflowId = 0 => Len(saved) < MaxSaved
    /\ IF ~Runnable(workflow)
       THEN /\ chat' = [chat EXCEPT !.output = "Error"]
            /\ UNCHANGED <<saved, currentWorkflowId>>
       ELSE IF currentWorkflowId # 0
       THEN /\ chat' = [chat EXCEPT !.loading = TRUE, !.workflowId = currentWorkflowId]
            /\ UNCHANGED <<saved, currentWorkflowId>>
       ELSE IF ok
       THEN /\ saved' = createWorkflow(workflow)
            /\ currentWorkflowId' = Len(saved')
            /\ chat' = [chat EXCEPT !.loading = TRUE, !.workflowId = Len(saved')]
       ELSE /\ chat' = [chat EXCEPT !.output = "Error"]
            /\ UNCHANGED <<saved, currentWorkflowId>>
    /\ ev' = Event("chatClick", Null, <<>>)
    /\ budget' = budget - 1
    /\ UNCHANGED <<nodes, edges, workflow, connectMode, connectFromRef, paneConnectMode,
                   selectedNode, activeTab, pendingLoad, effectPending, now>>

(* ... and when the chat request answers *)
ChatResponse(ok, text) ==
    /\ chat.loading
    /\ Mounted => ~effectPending
    /\ IF ok
       THEN /\ workflow' = SetResponse(workflow, text)
            /\ chat' = [chat EXCEPT !.loading = FALSE, !.output = text]
            /\ effectPending' = Mounted
       ELSE /\ chat' = [chat EXCEPT !.loading = FALSE, !.output = "Error"]
            /\ UNCHANGED <<workflow, effectPending>>
    /\ ev' = Event(IF ok THEN "chat" ELSE "chatFailed", Null, <<>>)
    /\ UNCHANGED <<nodes, edges, connectMode, connectFromRef, paneConnectMode,
                   selectedNode, activeTab, saved, pendingLoad, currentWorkflowId,
                   now, budget>>

(* The App, which passes no connectMode to the canvas, with a saved workflow *)
(* loaded: the palette, the canvas gestures, the tabs, Save, Load and chat   *)
NextChat ==
    \/ Reconcile
    \/ \E kind \in Kinds, t \in Clock :
          \E pos \in DropPositions : onDrop(PaletteTransfer(kind), pos, t)
    \/ \E i \in 1..Len(nodes) : onDelete(i)
    \/ \E i \in 1..Len(nodes), c \in PartialConfigs : onUpdateConfig(i, c)
    \/ \E i, j \in 1..Len(nodes) : onConnect(i, j)
    \/ \E i \in 1..Len(nodes), t \in Clock : onNodeClick(i, t)
    \/ onPaneClick
    \/ \E k \in 1..Len(edges) : onEdgeClick(k)
    \/ \E D \in SUBSET (1..Len(nodes)) : onNodesDelete(D)
    \/ \E E \in SUBSET (1..Len(edges)) : onEdgesDelete(E)
    \/ \E i \in 1..Len(nodes), pos \in Positions : onNodesChangePosition(i, pos)
    \/ \E tab \in AppTabs : setActiveTab(tab)
    \/ \E k \in 1..Len(saved) : LoadClick(k)
    \/ LoadResponse
    \/ \E ok \in BOOLEAN : handleSaveWorkflow(ok)
    \/ \E ok \in BOOLEAN : ChatClick(ok)
    \/ \E ok \in BOOLEAN, text \in Responses : ChatResponse(ok, text)

InitChat ==
    /\ nodes = <<>>
    /\ edges = <<>>
    /\ workflow = Doc(SavedWorkflow.nodes, SavedWorkflow.edges)
    /\ connectMode = FALSE
    /\ connectFromRef = Null
    /\ paneConnectMode = FALSE
    /\ selectedNode = Null
    /\ activeTab = "builder"
    /\ saved = <<SavedWorkflow>>
    /\ pendingLoad = 0
    /\ currentWorkflowId = 0
    /\ chat = NoChat
    /\ effectPending = TRUE
    /\ now = 1
    /\ budget = MaxChatGestures
    /\ ev = EventOf(-1, "load", Null, <<>>)

SpecChat == InitChat /\ [][NextChat]_vars

----------------------------------------------------------------------------
(* Vocabulary of the properties *)

(* the fields of a node other than its behavior handles *)
Fields(n) == [id |-> n.id, kind |-> n.kind, pos |-> n.pos, label |-> n.label,
              config |-> n.config, result |-> n.result]
FieldsOf(ns) == [i \in 1..Len(ns) |-> Fields(ns[i])]
NodeIds(ns) == {ns[i].id : i \in 1..Len(ns)}

(* the state right after a gesture, before the reconciler has run *)
JustNotified == Mounted /\ effectPending /\ ev.replaced = 0 /\ ev.skipped = 0
(* the reconciler has nothing left to do *)
Settled == Mounted /\ ~effectPending

(* C1: after a per-node delete gesture for node n (either kind of handle),  *)
(* the session graph has no edge whose source or target is n, also once the *)
(* reconciler has processed the document the gesture notified.              *)
C1_DeleteLeavesNoIncidentEdge ==
    (Mounted /\ ev.op = "onDelete") =>
        \A k \in 1..Len(edges) : ~Touches(edges[k], ev.id)

(* C2: no node of a document passed to onWorkflowChange carries a behavior *)
(* handle.                                                                 *)
C2_NotifiedNodesCarryNoHandle ==
    \A d \in 1..Len(ev.notes) :
        \A i \in 1..Len(ev.notes[d].nodes) : ev.notes[d].nodes[i].handle = "none"

(* C3: every document a mutation handler passes to onWorkflowChange has the *)
(* node-id sequence and the edge-id sequence of the session graph as it is  *)
(* once the gesture's mutation is applied.                                  *)
C3_NotifiedIdsAreSessionIds ==
    JustNotified =>
        \A d \in 1..Len(ev.notes) :
            /\ Ids(ev.notes[d].nodes) = Ids(nodes)
            /\ Ids(ev.notes[d].edges) = Ids(edges)

(* C4: in every document passed to onWorkflowChange, the source and the   *)
(* target of every edge are ids of nodes of that document (the workflows   *)
(* loaded from the backend have this property).                            *)
C4_NotifiedDocumentNotTorn ==
    \A d \in 1..Len(ev.notes) :
        \A k \in 1..Len(ev.notes[d].edges) :
            /\ ev.notes[d].edges[k].source \in NodeIds(ev.notes[d].nodes)
            /\ ev.notes[d].edges[k].target \in NodeIds(ev.notes[d].nodes)

(* C5: after the scenario drop user_query, drop output, connect them,     *)
(* delete user_query, and once the reconciler has settled, the session     *)
(* graph and the owner document hold exactly the output node and no edge.  *)
C5_ScenarioLeavesOutputNode ==
    (ev.scen = 4 /\ Settled) =>
        /\ Len(nodes) = 1 /\ nodes[1].kind = "output" /\ Len(edges) = 0
        /\ Len(workflow.nodes) = 1 /\ workflow.nodes[1].kind = "output"
        /\ Len(workflow.edges) = 0

(* C6: a run of the reconciler on a document whose node-id and edge-id     *)
(* sequences equal the session's leaves the session nodes and edges as they *)
(* are and notifies nothing.                                                *)
C6_ReconcileSameIdsIsNoOp ==
    [][(Mounted /\ effectPending
          /\ Ids(nodes) = Ids(workflow.nodes) /\ Ids(edges) = Ids(workflow.edges))
       => (nodes' = nodes /\ edges' = edges /\ workflow' = workflow
             /\ ev'.notes = ev.notes)]_vars

C6_Witness == ev.skipped = 1 /\ Len(nodes) = 2 /\ Len(edges) = 1

(* C7: a run of the reconciler on a document whose id sequences differ from *)
(* the session's makes the session the incoming graph: every node with its  *)
(* id, position, kind, label, config and result, both handles attached, and *)
(* the incoming edges unchanged.                                            *)
C7_ReconcileAdoptsIncoming ==
    [][(Mounted /\ effectPending
          /\ ~(Ids(nodes) = Ids(workflow.nodes) /\ Ids(edges) = Ids(workflow.edges)))
       => (/\ FieldsOf(nodes') = FieldsOf(workflow.nodes)
           /\ \A i \in 1..Len(nodes') : nodes'[i].handle = "hydrated"
           /\ edges' = workflow.edges)]_vars

C7_Witness == ev.replaced = 1 /\ Len(nodes) = 2 /\ Len(edges) = 1

(* C8: for a fixed owner document the reconciler replaces the session at   *)
(* most once; after the replacement the id sequences agree, the next run    *)
(* skips, and no further run follows until the next gesture.                *)
C8_ReconcileSettles ==
    /\ ev.replaced <= 1
    /\ ev.skipped <= 1
    /\ (Mounted /\ ev.replaced = 1) =>
          (Ids(nodes) = Ids(workflow.nodes) /\ Ids(edges) = Ids(workflow.edges))
    /\ (Mounted /\ ev.skipped = 1) => ~effectPending

C8_Witness == ev.replaced = 1 /\ ev.skipped = 1 /\ Len(nodes) > 0

(* C9: in every quiescent state the owner document's nodes equal the       *)
(* session nodes field by field and its edges equal the session edges.      *)
C9_SessionAndDocumentConverge ==
    Settled => (FieldsOf(workflow.nodes) = FieldsOf(nodes) /\ workflow.edges = edges)

(* C10: update-config with a partial config followed by update-config with *)
(* another one on the same node leaves every key the node had, with the     *)
(* value of the later partial config that names it, else of the earlier     *)
(* one, else the value it had, in the session and in the notified document. *)
Merged2(config, pre, first, second) ==
    /\ DOMAIN config = DOMAIN pre \cup DOMAIN first \cup DOMAIN second
    /\ \A k \in DOMAIN config :
          config[k] = IF k \in DOMAIN second THEN second[k]
                      ELSE IF k \in DOMAIN first THEN first[k] ELSE pre[k]

C10_ConfigMergeKeepsKeys ==
    (Mounted /\ ev.op = "onUpdateConfig" /\ Len(ev.chain) = 2) =>
        /\ Merged2(nodes[ev.idx].config, ev.chain[1].pre, ev.chain[1].arg, ev.chain[2].arg)
        /\ Merged2(ev.notes[1].nodes[ev.idx].config,
                   ev.chain[1].pre, ev.chain[1].arg, ev.chain[2].arg)

C10_Witness ==
    /\ ev.op = "onUpdateConfig" /\ Len(ev.chain) = 2
    /\ ev.chain[1].arg = [a |-> 1] /\ ev.chain[2].arg = [b |-> 2]
    /\ nodes[ev.idx].config.a = 1 /\ nodes[ev.idx].config.b = 2
    /\ "max_length" \in DOMAIN nodes[ev.idx].config

(* C11: update-config on node n changes only the config of n: the id, kind, *)
(* position, label and result of n and every field of every node with      *)
(* another id are the same before and after, in the session and in the      *)
(* notified document; and no step changes the kind of a node that stays in  *)
(* the session.                                                             *)
C11_UpdateConfigChangesOnlyConfig ==
    [][/\ (budget' < budget /\ ev'.op = "onUpdateConfig") =>
            /\ Len(nodes') = Len(nodes)
            /\ \A i \in 1..Len(nodes) :
                  IF nodes[i].id = ev'.id
                  THEN [nodes'[i] EXCEPT !.config = nodes[i].config] = nodes[i]
                  ELSE nodes'[i] = nodes[i]
            /\ \A d \in 1..Len(ev'.notes) :
                  /\ Len(ev'.notes[d].nodes) = Len(nodes)
                  /\ \A i \in 1..Len(nodes) :
                        /\ [Fields(ev'.notes[d].nodes[i]) EXCEPT !.config = nodes[i].config]
                              = Fields(nodes[i])
                        /\ ev'.notes[d].nodes[i].config = nodes'[i].config
       /\ \A i \in 1..Len(nodes), j \in 1..Len(nodes') :
              nodes[i].id = nodes'[j].id => nodes[i].kind = nodes'[j].kind]_vars

C11_Witness ==
    /\ ev.op = "onUpdateConfig" /\ ev.replaced = 0 /\ ev.skipped = 0
    /\ Len(nodes) = 2 /\ nodes[1].id # nodes[2].id
    /\ "a" \in DOMAIN nodes[ev.idx].config
    /\ nodes[3 - ev.idx].config = DefaultConfig(nodes[3 - ev.idx].kind)
    /\ Len(ev.notes) = 1 /\ "a" \in DOMAIN ev.notes[1].nodes[ev.idx].config

(* C12: with connect mode on and no source armed, a click on node A         *)
(* directly followed by a click on another node B clears the cursor and     *)
(* notifies one document whose edges are the session edges followed by one  *)
(* new edge from A to B. The session gets that edge in the click, or, when   *)
(* it already has an edge from A to B, in the reconciler run that follows:  *)
(* once settled after the click the session edges are the notified ones.    *)
C12_TwoClicksAddOneEdge ==
    [][/\ (budget' < budget /\ ev.op = "arm" /\ ev'.op = "connectClick") =>
            /\ connectMode /\ connectFromRef = ev.id /\ ev.id # ev'.id
            /\ connectFromRef' = Null
            /\ Len(ev'.made) = 1
            /\ ev'.made[1].source = ev.id /\ ev'.made[1].target = ev'.id
            /\ Len(ev'.notes) = 1
            /\ ev'.notes[1].edges = Append(edges, ev'.made[1])
            /\ workflow'.edges = Append(edges, ev'.made[1])
            /\ nodes' = nodes
            /\ \/ edges' = Append(edges, ev'.made[1])
               \/ /\ edges' = edges
                  /\ \E k \in 1..Len(edges) :
                        edges[k].source = ev.id /\ edges[k].target = ev'.id
       /\ (ev'.op = "connectClick" /\ activeTab' = "builder" /\ ~effectPending') =>
            (edges' = ev'.notes[1].edges /\ workflow'.edges = edges'
               /\ connectFromRef' = Null)]_vars

C12_Witness ==
    /\ ev.op = "connectClick" /\ Settled /\ connectFromRef = Null
    /\ Len(edges) = 2 /\ edges[2] = ev.made[1]
    /\ edges[2].source = <<"output", 0>> /\ edges[2].target = <<"user_query", 0>>
    /\ workflow.edges = edges

(* C13: with the cursor armed on node A, a click on A adds no edge, notifies *)
(* nothing and leaves the session graph and the cursor as they are; no edge  *)
(* made by a click has the same node as source and target.                   *)
C13_SameNodeClickIsNoOp ==
    [][/\ (budget' < budget /\ connectMode /\ connectFromRef # Null
             /\ ev'.op \in {"sameClick", "connectClick"}
             /\ ev'.id = connectFromRef) =>
            /\ nodes' = nodes /\ edges' = edges /\ workflow' = workflow
            /\ ev'.notes = <<>> /\ ev'.made = <<>>
            /\ connectFromRef' = connectFromRef
       /\ \A k \in 1..Len(ev'.made) : ev'.made[k].source # ev'.made[k].target]_vars

C13_Witness ==
    /\ ev.op = "sameClick" /\ connectMode /\ connectFromRef = ev.id
    /\ ev.id \in NodeIds(nodes) /\ Len(edges) = 1 /\ ev.notes = <<>>

(* C14: after a click on the empty canvas made while connect mode is on, the *)
(* cursor is Idle (and the click made no edge), whatever the number of times *)
(* connect mode was switched since the canvas was mounted.                   *)
C14_PaneClickClearsCursor ==
    (Mounted /\ ev.op = "onPaneClick" /\ connectMode) =>
        (connectFromRef = Null /\ ev.made = <<>> /\ ev.notes = <<>>)

(* C15: switching connect mode off clears the cursor, so the node click that *)
(* directly follows switching it on again makes no edge and leaves the       *)
(* clicked node armed.                                                       *)
C15_ModeExitClearsCursor ==
    [][/\ (budget' < budget /\ ev'.op = "connectMode" /\ ~connectMode') =>
            connectFromRef' = Null
       /\ (budget' < budget /\ ev.op = "connectMode" /\ connectMode
             /\ ev'.op \in {"arm", "sameClick", "connectClick"}) =>
            (/\ ev'.op # "connectClick"
             /\ ev'.made = <<>>
             /\ edges' = edges
             /\ connectFromRef' = ev'.id)]_vars

(* C16: the edge a connect gesture (drag or second click) creates has its   *)
(* source and its target among the ids of the session nodes at the moment   *)
(* it is added.                                                              *)
C16_CreatedEdgeJoinsSessionNodes ==
    (JustNotified /\ ev.op \in {"onConnect", "connectClick"}) =>
        \A k \in 1..Len(ev.made) :
            /\ ev.made[k].source \in NodeIds(nodes)
            /\ ev.made[k].target \in NodeIds(nodes)

(* C17: after the deletion of a set D of nodes with the delete key, the     *)
(* document the owner holds and the session graph, before and after the     *)
(* reconciler has processed that document, have no node of D and no edge    *)
(* whose source or target is in D.                                           *)
C17_BulkDeleteCascades ==
    (Mounted /\ ev.op = "onNodesDelete") =>
        /\ NodeIds(workflow.nodes) \cap ev.ids = {}
        /\ NodeIds(nodes) \cap ev.ids = {}
        /\ \A k \in 1..Len(workflow.edges) :
              workflow.edges[k].source \notin ev.ids /\ workflow.edges[k].target \notin ev.ids
        /\ \A k \in 1..Len(edges) :
              edges[k].source \notin ev.ids /\ edges[k].target \notin ev.ids

(* C18: a drop whose payload is missing or cannot be parsed (no            *)
(* application/reactflow type, or componentData empty, no JSON, or null)    *)
(* ends without an exception, adds no node and notifies nothing.            *)
C18_MalformedDropAbortsSilently ==
    (ev.op = "dropAborted") => (~ev.threw /\ ev.notes = <<>>)

(* C19: the ids of the session nodes are pairwise different after any      *)
(* sequence of drops: a drop whose generated id is already in the session  *)
(* leaves the node sequence unchanged.                                      *)
C19_DropKeepsIdsUnique ==
    (Mounted /\ ev.op = "drop") =>
        \A i, j \in 1..Len(nodes) : nodes[i].id = nodes[j].id => i = j

(* C20: a drop with the palette's payload appends one node (result {""} for *)
(* an output node, none otherwise) to the session nodes, leaves the nodes   *)
(* already there and the edges as they are, and notifies the sanitized new  *)
(* node sequence with the session edges; the reconciler run that follows    *)
(* changes nothing.                                                         *)
C20_DropAppendsOneNode ==
    [][/\ (budget' < budget /\ ev'.op = "drop") =>
            /\ Len(nodes') = Len(nodes) + 1
            /\ SubSeq(nodes', 1, Len(nodes)) = nodes
            /\ nodes'[Len(nodes')].id = ev'.id
            /\ nodes'[Len(nodes')].result =
                  (IF nodes'[Len(nodes')].kind = "output" THEN <<"">> ELSE <<>>)
            /\ edges' = edges
            /\ ev'.notes = <<Doc(sanitizeNodes(nodes'), edges)>>
            /\ workflow' = ev'.notes[1]
            /\ \A i \in 1..Len(workflow'.nodes) : workflow'.nodes[i].handle = "none"
       /\ (budget' = budget /\ ev.op = "drop" /\ Mounted /\ effectPending) =>
            /\ nodes' = nodes /\ edges' = edges /\ workflow' = workflow
            /\ ev'.replaced = 0 /\ ~effectPending']_vars

C20_Witness ==
    /\ ev.op = "drop" /\ ev.skipped = 1 /\ ev.replaced = 0 /\ Settled
    /\ Len(nodes) = 3 /\ Len(edges) = 1 /\ nodes[3].id = ev.id
    /\ nodes[1].handle = "hydrated" /\ nodes[3].handle = "drop"
    /\ FieldsOf(workflow.nodes) = FieldsOf(nodes) /\ workflow.edges = edges

(* C21: the node a drop creates has the dragged component kind as its kind, *)
(* the payload's defaultConfig as its config (the empty config when the      *)
(* payload has none; the kind's default configuration for a drag started at  *)
(* the palette) and the payload's label; its result is the empty formatted   *)
(* response when the kind is output and absent otherwise.                    *)
C21_DroppedNodeFields ==
    [][(budget' < budget /\ ev'.op = "drop") =>
         LET n == nodes'[Len(nodes')]
             dt == ev'.dt[1]
             componentData == JSONParse(dt.componentData).value[1]
         IN /\ n.kind = dt.componentType
            /\ n.label = componentData.label
            /\ n.config = (IF "defaultConfig" \in DOMAIN componentData
                           THEN componentData.defaultConfig ELSE EmptyConfig)
            /\ (dt = PaletteTransfer(n.kind)) => (n.config = DefaultConfig(n.kind))
            /\ (n.kind = "output") => (n.result = <<"">>)
            /\ (n.kind # "output") => (n.result = <<>>)
            /\ ev'.notes[1].nodes[Len(nodes')].result = n.result]_vars

C21_Witness ==
    /\ ev.op = "drop" /\ Len(nodes) = 2
    /\ nodes[1].kind = "knowledge_base" /\ nodes[1].result = <<>>
    /\ DOMAIN nodes[1].config = {}
    /\ nodes[2].kind = "output" /\ nodes[2].result = <<"">>
    /\ nodes[2].config = DefaultConfig("output")
    /\ nodes[1].handle = "drop" /\ nodes[2].handle = "drop"

(* C22, as stated: every completed drag from a node to another adds an edge *)
(* to the session and to the owner document, so that two drags between the  *)
(* same pair leave two edges with different ids.                             *)
C22_DragTwiceAddsTwoEdges ==
    [][(budget' < budget /\ ev'.op = "onConnect") =>
         /\ Len(edges') = Len(edges) + 1
         /\ Len(workflow'.edges) = Len(edges) + 1
         /\ edges'[Len(edges')].id \notin Range(Ids(edges))]_vars

(* C22, as the code has it: a completed drag from node A to node B appends  *)
(* one edge from A to B, with an id no edge of the session has, unless the  *)
(* session already has an edge from A to B; in that case the session edges  *)
(* stay as they are. The owner is notified of the sanitized nodes and the    *)
(* resulting edges in both cases.                                            *)
C22_DragDedupesParallelEdge ==
    [][(budget' < budget /\ ev'.op = "onConnect") =>
         /\ nodes' = nodes
         /\ workflow' = Doc(sanitizeNodes(nodes), edges')
         /\ IF \E k \in 1..Len(edges) :
                   edges[k].source = ev'.id /\ edges[k].target = ev'.to
            THEN edges' = edges /\ ev'.made = <<>>
            ELSE /\ Len(ev'.made) = 1
                 /\ edges' = Append(edges, ev'.made[1])
                 /\ ev'.made[1].source = ev'.id /\ ev'.made[1].target = ev'.to
                 /\ ev'.made[1].id \notin Range(Ids(edges))]_vars

C22_Witness ==
    /\ ev.op = "onConnect" /\ ev.made = <<>> /\ ev.handle = "none"
    /\ Len(nodes) = 2 /\ nodes[1].handle = "drop"
    /\ Len(edges) = 1 /\ edges[1].source = ev.id /\ edges[1].target = ev.to
    /\ workflow.edges = edges

(* C23: a click on edge e removes from the session edges the edge with the  *)
(* id of e and no other, keeps the remaining edges in their order and every *)
(* node as it is, and notifies the sanitized nodes with the remaining edges.*)
C23_EdgeClickRemovesThatEdge ==
    [][(budget' < budget /\ ev'.op = "onEdgeClick") =>
         /\ ev'.id \in Range(Ids(edges))
         /\ ev'.id \notin Range(Ids(edges'))
         /\ edges' = SelectSeq(edges, LAMBDA e : e.id # ev'.id)
         /\ nodes' = nodes
         /\ ev'.notes = <<Doc(sanitizeNodes(nodes), edges')>>
         /\ workflow' = ev'.notes[1]
         /\ \A i \in 1..Len(workflow'.nodes) :
               /\ workflow'.nodes[i].handle = "none"
               /\ Fields(workflow'.nodes[i]) = Fields(nodes[i])]_vars

C23_Witness ==
    /\ ev.op = "onEdgeClick" /\ JustNotified
    /\ Len(nodes) = 2 /\ Len(edges) = 1
    /\ edges[1].id # ev.id /\ edges[1].id[1] = "connect"
    /\ workflow.edges = edges

(* C24: in every reachable state every node of the session carries the two  *)
(* behavior handles, those attached by the drop or those attached by the     *)
(* reconciler.                                                               *)
C24_EverySessionNodeHasHandles ==
    \A i \in 1..Len(nodes) : nodes[i].handle \in {"drop", "hydrated"}

C24_Witness ==
    /\ Len(nodes) = 3 /\ Settled
    /\ nodes[1].handle = "hydrated" /\ nodes[2].handle = "hydrated"
    /\ nodes[3].handle = "drop"
    /\ \A i \in 1..3 : workflow.nodes[i].handle = "none"

(* C25: a run of the reconciler while the owner supplies no document leaves *)
(* the session nodes and edges as they are and notifies nothing.            *)
C25_ReconcileWithoutDocument ==
    [][(Mounted /\ effectPending /\ workflow = NoDocument) =>
         /\ nodes' = nodes /\ edges' = edges /\ workflow' = workflow
         /\ ev'.notes = ev.notes /\ ev'.replaced = ev.replaced
         /\ ~effectPending']_vars

C25_Witness ==
    /\ workflow = NoDocument /\ Settled
    /\ Len(nodes) = 2 /\ Len(edges) = 1
    /\ ev.op = "onConnect" /\ Len(ev.notes) = 1

(* C26: for the node sequences of the session and of the owner document,    *)
(* sanitizing twice gives what sanitizing once gives; the sanitized sequence *)
(* has the same length, no node of it carries a handle, and every node of it *)
(* has the id, position, kind, label, config and result of the node at the   *)
(* same index of the input.                                                  *)
C26_SanitizeIdempotentHandleFree ==
    \A ns \in {nodes, IncomingNodes(workflow)} :
        LET once == sanitizeNodes(ns) IN
        /\ sanitizeNodes(once) = once
        /\ Len(once) = Len(ns)
        /\ \A i \in 1..Len(once) :
              /\ once[i].handle = "none"
              /\ once[i].capNodes = <<>> /\ once[i].capEdges = <<>>
              /\ Fields(once[i]) = Fields(ns[i])

C26_Witness ==
    /\ Len(nodes) = 3 /\ sanitizeNodes(nodes) # nodes
    /\ nodes[1].handle = "hydrated" /\ Len(nodes[1].capEdges) = 1
    /\ nodes[2].result = <<"">>
    /\ nodes[3].handle = "drop" /\ Len(nodes[3].capNodes) = 2
    /\ "a" \in DOMAIN nodes[1].config

(* C27: calling the delete handle or the update-config handle of a node     *)
(* with an id that no node of the session has leaves the session nodes and  *)
(* edges as they are, and the owner document with the node ids and the edge *)
(* ids it had.                                                               *)
C27_AbsentIdIsNoOp ==
    [][(budget' < budget /\ ev'.op \in {"onDelete", "onUpdateConfig"}
          /\ ev'.id \notin Range(Ids(nodes))) =>
         /\ nodes' = nodes /\ edges' = edges
         /\ Ids(IncomingNodes(workflow')) = Ids(IncomingNodes(workflow))
         /\ Ids(IncomingEdges(workflow')) = Ids(IncomingEdges(workflow))]_vars

(* the last step was a click on a node *)
NodeClicked == budget' < budget /\ ev'.op \in {"arm", "sameClick", "connectClick", "select"}

(* C28: a click on a node made while connect mode is on does not select a   *)
(* node; a click on a node made while connect mode is off selects the node,  *)
(* leaves the connect cursor as it is and makes no edge.                     *)
C28_ClickFollowsMode ==
    [][NodeClicked =>
         /\ connectMode =>
               (ev'.op # "select" /\ selectedNode' = selectedNode)
         /\ ~connectMode =>
               /\ ev'.op = "select" /\ selectedNode' = ev'.id
               /\ connectFromRef' = connectFromRef
               /\ edges' = edges /\ ev'.made = <<>> /\ workflow' = workflow]_vars

C28_Witness ==
    /\ ev.op = "select" /\ ~connectMode
    /\ connectFromRef = <<"user_query", 0>> /\ selectedNode = <<"output", 0>>
    /\ Len(edges) = 1

(* C29: while connect mode is on a completed drag between two handles makes *)
(* no edge, and while it is off a click on a node makes no edge.             *)
C29_OneConnectGestureAtATime ==
    [][/\ (budget' < budget /\ ev'.op = "onConnect" /\ connectMode) =>
            (ev'.made = <<>> /\ edges' = edges)
       /\ (NodeClicked /\ ~connectMode) =>
            (ev'.made = <<>> /\ edges' = edges)]_vars

(* C30: update-config on a node leaves the session edges as they are and    *)
(* notifies them unchanged, so that the owner document, which the           *)
(* reconciler then compares the session with, has the edges the session had *)
(* before the update.                                                        *)
C30_UpdateConfigKeepsEdges ==
    [][(budget' < budget /\ ev'.op = "onUpdateConfig") =>
         /\ edges' = edges
         /\ IncomingEdges(workflow') = edges
         /\ \A d \in 1..Len(ev'.notes) : ev'.notes[d].edges = edges]_vars

(* C31: deleting a node through its own handle removes that node and the   *)
(* edges incident to it and nothing else: every other node and every other  *)
(* edge the session had before the gesture is, in the same order, in the    *)
(* session after the gesture and in the owner document the reconciler then  *)
(* compares the session with.                                                *)
C31_HandleDeleteRemovesOnlyThatNode ==
    [][(budget' < budget /\ ev'.op = "onDelete" /\ ev'.id \in NodeIds(nodes)) =>
         /\ Ids(nodes') = Ids(DeleteNodeOf(nodes, ev'.id))
         /\ Ids(edges') = Ids(DeleteEdgesOf(edges, ev'.id))
         /\ Ids(IncomingNodes(workflow')) = Ids(DeleteNodeOf(nodes, ev'.id))
         /\ Ids(IncomingEdges(workflow')) = Ids(DeleteEdgesOf(edges, ev'.id))]_vars

(* C32: reconciliation is one-way. A run of the reconciler, whether it      *)
(* skips or replaces the session graph, notifies nothing and leaves the     *)
(* owner document as it is; the document changes only in a step of a        *)
(* mutation handler, to the document that handler notified last, or in a    *)
(* step of the owner itself.                                                 *)
ReconcilerRan == budget' = budget /\ pendingLoad' = pendingLoad

C32_ReconcileIsOneWay ==
    [][/\ ReconcilerRan => (workflow' = workflow /\ ev'.notes = ev.notes)
       /\ workflow' # workflow =>
            \/ /\ budget' < budget
               /\ Len(ev'.notes) > 0
               /\ workflow' = ev'.notes[Len(ev'.notes)]
            \/ ev'.op = "load"]_vars

C32_Witness ==
    /\ ev.op = "onDelete" /\ ev.replaced = 1 /\ ev.skipped = 1
    /\ workflow = ev.notes[Len(ev.notes)]
    /\ Ids(nodes) = Ids(workflow.nodes)

(* C33: a successful chat run sets the result of every output node of the  *)
(* owner document to the response text and changes nothing else of the      *)
(* document; whenever the builder canvas is shown and the reconciler has    *)
(* nothing left to do, a session output node whose document node carries    *)
(* the response carries it too; and a gesture leaves the response on every  *)
(* output node of the document that had it and is still there.              *)
ChatAnswered == chat.loading /\ ~chat'.loading /\ ev'.op = "chat"

C33_ChatResponseReachesCanvas ==
    [][/\ ChatAnswered =>
            /\ workflow'.edges = workflow.edges
            /\ Len(workflow'.nodes) = Len(workflow.nodes)
            /\ \A i \in 1..Len(workflow.nodes) :
                  workflow'.nodes[i] =
                     IF workflow.nodes[i].kind = "output"
                     THEN [workflow.nodes[i] EXCEPT !.result = <<chat'.output>>]
                     ELSE workflow.nodes[i]
       /\ (Settled' /\ chat'.output \in Responses) =>
            \A i \in 1..Len(nodes'), j \in 1..Len(workflow'.nodes) :
               (/\ nodes'[i].id = workflow'.nodes[j].id
                /\ nodes'[i].kind = "output"
                /\ workflow'.nodes[j].result = <<chat'.output>>)
               => nodes'[i].result = <<chat'.output>>
       /\ (budget' < budget /\ chat.output \in Responses) =>
            \A i \in 1..Len(workflow.nodes), j \in 1..Len(workflow'.nodes) :
               (/\ workflow.nodes[i].id = workflow'.nodes[j].id
                /\ workflow.nodes[i].kind = "output"
                /\ workflow.nodes[i].result = <<chat.output>>)
               => workflow'.nodes[j].result = <<chat.output>>]_vars

(* C34: the workflow id sent with a chat request designates a saved         *)
(* workflow whose nodes (id, kind, position, label and config, in order)    *)
(* and edges are those of the owner document at the time of the run.        *)
Content(ns) ==
    [i \in 1..Len(ns) |->
        [id |-> ns[i].id, kind |-> ns[i].kind, pos |-> ns[i].pos,
         label |-> ns[i].label, config |-> ns[i].config]]

ChatRequested == ~chat.loading /\ chat'.loading /\ ev'.op = "chatClick"

C34_ChatRunsTheCurrentDocument ==
    [][ChatRequested =>
         /\ chat'.workflowId \in 1..Len(saved')
         /\ Content(saved'[chat'.workflowId].nodes) = Content(workflow.nodes)
         /\ saved'[chat'.workflowId].edges = workflow.edges]_vars

====
